---- MODULE Spec2Model ----
(***************************************************************************)
(* Content acquisition and ingestion pipeline of indigobot:                *)
(*   utils/etl/redundancy_check.py  (DedupTracker)                         *)
(*   utils/etl/custom_loader.py     (IngestionLoader, Orchestrator)        *)
(*   utils/etl/jf_crawler.py        (sitemap crawl of the pipeline)        *)
(*   utils/jf_crawler.py            (SitemapResolver with robots.txt)      *)
(***************************************************************************)
EXTENDS Integers, Sequences, FiniteSets, TLC

VARIABLES tracked_file, dd_last, dd_repeat,
          ld_pc, ld_chunks, ld_n, ld_i, ld_index0, ld_loads, vs_calls, vs_index,
          rs_web, rs_robots, rs_pc, rs_seed, rs_rp, urls_to_check, final_urls, rs_faults,
          jf_pc, jf_runs, jf_new, jf_downloads, jf_ok, html_files, json_files,
          ex_last,
          rb_pc, rb_text, rb_attempt, rb_log, rb_rp,
          hs_pc, hs_scheme, hs_log, hs_result,
          run_pc, run_count, run_log, run_fetched, run_index0,
          cc_procs

dedupVars == <<tracked_file, dd_last, dd_repeat>>

loaderVars == <<ld_pc, ld_chunks, ld_n, ld_i, ld_index0, ld_loads, vs_calls, vs_index>>

resolverVars == <<rs_web, rs_robots, rs_pc, rs_seed, rs_rp, urls_to_check, final_urls, rs_faults>>

stageVars == <<jf_pc, jf_runs, jf_new, jf_downloads, jf_ok, html_files, json_files>>

extractVars == <<ex_last>>

gateVars == <<rb_pc, rb_text, rb_attempt, rb_log, rb_rp>>

sessionVars == <<hs_pc, hs_scheme, hs_log, hs_result>>

runVars == <<run_pc, run_count, run_log, run_fetched, run_index0>>

vars == <<dedupVars, loaderVars, resolverVars, stageVars, extractVars, gateVars, sessionVars, runVars, cc_procs>>

(***************************************************************************)
(* Text.  A string is a sequence of characters; a URL token is one         *)
(* character of the alphabet UrlChars, so a URL is a one-character string. *)
(***************************************************************************)
UrlChars == {"A", "B", "C", "D"}

NL == "\n"

Whitespace == {" ", NL}

Url(c) == <<c>>

Urls == {Url(c) : c \in UrlChars}

\* Longest candidate list handed to check_duplicate.
MaxCands == 3

SeqsUpTo(S, n) == UNION {[1..k -> S] : k \in 0..n}

CandLists == SeqsUpTo(Urls, MaxCands)

RECURSIVE LStrip(_)
LStrip(s) == IF s # <<>> /\ Head(s) \in Whitespace THEN LStrip(Tail(s)) ELSE s

RECURSIVE RStrip(_)
RStrip(s) == IF s # <<>> /\ s[Len(s)] \in Whitespace THEN RStrip(SubSeq(s, 1, Len(s) - 1)) ELSE s

\* str.strip()
Strip(s) == RStrip(LStrip(s))

\* f.write(f"{line}\n")
WriteLine(u) == u \o <<NL>>

InSeq(x, s) == \E i \in 1..Len(s) : s[i] = x

SeqSet(s) == {s[i] : i \in 1..Len(s)}

(***************************************************************************)
(* DedupTracker: utils/etl/redundancy_check.py                             *)
(* The state file either does not exist or is a sequence of lines.         *)
(***************************************************************************)
MissingFile == [exists |-> FALSE, lines |-> <<>>]

FileOf(ls) == [exists |-> TRUE, lines |-> ls]

\* Fault variant of file_to_list: the lines are returned with their terminator.
file_to_list_nostrip(f) == f.lines

\* file_to_list(): every line of the file, stripped.  Only called on an
\* existing file; the caller handles FileNotFoundError.
file_to_list(f) == [i \in 1..Len(f.lines) |-> Strip(f.lines[i])]

\* Fault variant of ReadTracked: the state file is never found.
ReadTracked_fresh(f) == <<>>

\* try: tracked_urls = file_to_list()  except FileNotFoundError: tracked_urls = []
ReadTracked(f) == IF f.exists THEN file_to_list(f) ELSE <<>>

\* Fault variant of ScanUrls: a new URL is not appended to tracked_urls.
RECURSIVE ScanUrls_forget(_, _, _)
ScanUrls_forget(urls, i, acc) ==
    IF i > Len(urls) THEN acc
    ELSE IF InSeq(urls[i], acc.tracked)
         THEN ScanUrls_forget(urls, i + 1, acc)
         ELSE ScanUrls_forget(urls, i + 1, [tracked |-> acc.tracked, to_load |-> Append(acc.to_load, urls[i])])

\* The loop of check_duplicate over urls[i..]: acc = [tracked, to_load].
RECURSIVE ScanUrls(_, _, _)
ScanUrls(urls, i, acc) ==
    IF i > Len(urls) THEN acc
    ELSE IF InSeq(urls[i], acc.tracked)
         THEN ScanUrls(urls, i + 1, acc)
         ELSE ScanUrls(urls, i + 1, [tracked |-> Append(acc.tracked, urls[i]), to_load |-> Append(acc.to_load, urls[i])])

\* with open(TRACKED_URLS_FILE, "w"): one line per tracked URL.
WriteTracked(tracked) == FileOf([i \in 1..Len(tracked) |-> WriteLine(tracked[i])])

\* Fault variant of check_duplicate: only urls_to_load is written back.
check_duplicate_writeNew(urls, f) ==
    LET acc == ScanUrls(urls, 1, [tracked |-> ReadTracked(f), to_load |-> <<>>])
    IN  [ret |-> acc.to_load, file |-> WriteTracked(acc.to_load)]

\* check_duplicate(urls) on state file f: the returned list and the new file.
check_duplicate(urls, f) ==
    LET acc == ScanUrls(urls, 1, [tracked |-> ReadTracked(f), to_load |-> <<>>])
    IN  [ret |-> acc.to_load, file |-> WriteTracked(acc.tracked)]

\* The persisted tracked list, as the program reads it back.
Tracked(f) == ReadTracked(f)

NoCall == [called |-> FALSE, pre |-> MissingFile, cands |-> <<>>, ret |-> <<>>]

InitDedup ==
    /\ tracked_file = MissingFile
    /\ dd_last = NoCall
    /\ dd_repeat = FALSE

\* One call of check_duplicate with an arbitrary candidate list.
CheckDuplicate_appendAll ==
    \E cands \in CandLists :
        LET r == check_duplicate(cands, tracked_file)
        IN  /\ tracked_file' = WriteTracked(ReadTracked(tracked_file) \o cands)
            /\ dd_last' = [called |-> TRUE, pre |-> tracked_file, cands |-> cands, ret |-> r.ret]
            /\ dd_repeat' = (dd_last.called /\ dd_last.cands = cands)

CheckDuplicate ==
    \E cands \in CandLists :
        LET r == check_duplicate(cands, tracked_file)
        IN  /\ tracked_file' = r.file
            /\ dd_last' = [called |-> TRUE, pre |-> tracked_file, cands |-> cands, ret |-> r.ret]
            /\ dd_repeat' = (dd_last.called /\ dd_last.cands = cands)

(***************************************************************************)
(* IngestionLoader: add_docs of utils/etl/custom_loader.py                 *)
(* vs_index is the content of the vector store, vs_calls the batches the   *)
(* current add_docs call has handed to vectorstore.add_documents.          *)
(***************************************************************************)
\* Longest chunk list, largest batch size, number of add_docs calls.
MaxChunks == 6

MaxBatch == 4

MaxLoads == 2

Min(a, b) == IF a < b THEN a ELSE b

\* The chunks are told apart by their position in the list.
ChunkList(k) == [j \in 1..k |-> j]

\* Fault variant of Slice: chunks[i : i + n + 1].
Slice_offByOne(chunks, i, n) == SubSeq(chunks, i + 1, Min(i + n + 1, Len(chunks)))

\* The slice chunks[i : i + n] (i is a 0-based offset).
Slice(chunks, i, n) == SubSeq(chunks, i + 1, Min(i + n, Len(chunks)))

InitLoader ==
    /\ ld_pc = "idle"
    /\ ld_chunks = <<>>
    /\ ld_n = 1
    /\ ld_i = 0
    /\ ld_index0 = <<>>
    /\ ld_loads = 0
    /\ vs_calls = <<>>
    /\ vs_index = <<>>

\* add_docs(chunks, n) is entered: i = 0, the first value of range(0, len(chunks), n).
AddDocsEnter(chunks, n) ==
    /\ ld_pc \in {"idle", "done", "raised"}
    /\ ld_pc' = "loop"
    /\ ld_chunks' = chunks
    /\ ld_n' = n
    /\ ld_i' = 0
    /\ ld_index0' = vs_index
    /\ vs_calls' = <<>>
    /\ UNCHANGED vs_index

AddDocsCall ==
    /\ ld_loads < MaxLoads
    /\ ld_loads' = ld_loads + 1
    /\ \E k \in 0..MaxChunks, n \in 1..MaxBatch : AddDocsEnter(ChunkList(k), n)
    /\ UNCHANGED <<dedupVars, resolverVars, stageVars, extractVars, gateVars, sessionVars, runVars, cc_procs>>

\* Fault variant of AddBatchOk: the offset advances by n + 1.
AddBatchOk_skip ==
    /\ ld_pc = "loop"
    /\ ld_i < Len(ld_chunks)
    /\ vs_calls' = Append(vs_calls, [batch |-> Slice(ld_chunks, ld_i, ld_n), ok |-> TRUE])
    /\ vs_index' = vs_index \o Slice(ld_chunks, ld_i, ld_n)
    /\ ld_i' = ld_i + ld_n + 1
    /\ UNCHANGED <<ld_pc, ld_chunks, ld_n, ld_index0, ld_loads, dedupVars, resolverVars, stageVars, extractVars, gateVars, sessionVars, runVars, cc_procs>>

\* One iteration whose vectorstore.add_documents(chunks[i : i + n]) succeeds:
\* the batch is committed and i advances by n.
AddBatchOk ==
    /\ ld_pc = "loop"
    /\ ld_i < Len(ld_chunks)
    /\ vs_calls' = Append(vs_calls, [batch |-> Slice(ld_chunks, ld_i, ld_n), ok |-> TRUE])
    /\ vs_index' = vs_index \o Slice(ld_chunks, ld_i, ld_n)
    /\ ld_i' = ld_i + ld_n
    /\ UNCHANGED <<ld_pc, ld_chunks, ld_n, ld_index0, ld_loads, dedupVars, resolverVars, stageVars, extractVars, gateVars, sessionVars, runVars, cc_procs>>

\* Fault variant of AddBatchRaise: the exception is caught and the loop goes on.
AddBatchRaise_swallow ==
    /\ ld_pc = "loop"
    /\ ld_i < Len(ld_chunks)
    /\ vs_calls' = Append(vs_calls, [batch |-> Slice(ld_chunks, ld_i, ld_n), ok |-> FALSE])
    /\ ld_i' = ld_i + ld_n
    /\ UNCHANGED <<vs_index, ld_pc, ld_chunks, ld_n, ld_index0, ld_loads, dedupVars, resolverVars, stageVars, extractVars, gateVars, sessionVars, runVars, cc_procs>>

\* One iteration whose vectorstore.add_documents raises: add_docs has no
\* try/except, so the exception leaves it.  What the store kept of the failed
\* batch is the store's business: any proper prefix of it.
AddBatchRaise ==
    /\ ld_pc = "loop"
    /\ ld_i < Len(ld_chunks)
    /\ vs_calls' = Append(vs_calls, [batch |-> Slice(ld_chunks, ld_i, ld_n), ok |-> FALSE])
    /\ \E m \in 0..(Len(Slice(ld_chunks, ld_i, ld_n)) - 1) :
           vs_index' = vs_index \o SubSeq(Slice(ld_chunks, ld_i, ld_n), 1, m)
    /\ ld_pc' = "raised"
    /\ UNCHANGED <<ld_i, ld_chunks, ld_n, ld_index0, ld_loads, dedupVars, resolverVars, stageVars, extractVars, gateVars, sessionVars, runVars, cc_procs>>

\* range(0, len(chunks), n) is exhausted: add_docs returns.
AddDocsReturn ==
    /\ ld_pc = "loop"
    /\ ld_i >= Len(ld_chunks)
    /\ ld_pc' = "done"
    /\ UNCHANGED <<vs_calls, vs_index, ld_i, ld_chunks, ld_n, ld_index0, ld_loads, dedupVars, resolverVars, stageVars, extractVars, gateVars, sessionVars, runVars, cc_procs>>

(***************************************************************************)
(* RobotsGate and SitemapResolver: utils/jf_crawler.py                     *)
(* A path is a sequence of tokens, "/" being one of them, so that          *)
(* str.startswith is the prefix relation on sequences.                     *)
(***************************************************************************)
SL == "/"

RECURSIVE PathOf(_)
PathOf(segs) == IF segs = <<>> THEN <<>> ELSE <<SL, Head(segs)>> \o PathOf(Tail(segs))

P_private == PathOf(<<"private">>)

P_root == <<SL>>

MkUrl(o, segs) == [origin |-> o, path |-> PathOf(segs)]

Origins == {"o1", "o2"}

U_idx == MkUrl("o1", <<"sitemap.xml">>)

U_s1 == MkUrl("o1", <<"s1.xml">>)

U_s2 == MkUrl("o1", <<"s2.xml">>)

U_a == MkUrl("o1", <<"a">>)

U_b == MkUrl("o1", <<"b">>)

U_c == MkUrl("o1", <<"c">>)

U_d == MkUrl("o1", <<"d">>)

U_pa == MkUrl("o1", <<"private", "a">>)

U_fpb == MkUrl("o2", <<"private", "b">>)

U_fc == MkUrl("o2", <<"c">>)

SiteUrls == {U_idx, U_s1, U_s2, U_a, U_b, U_c, U_d, U_pa, U_fpb, U_fc}

\* get_base_url(url): scheme://netloc
get_base_url(url) == url.origin

IsPrefix(s, t) == Len(s) <= Len(t) /\ SubSeq(t, 1, Len(s)) = s

\* --- robots.txt texts: one record per line ---
UAStar == [f |-> "user-agent", v |-> <<"*">>]

Dis(path) == [f |-> "disallow", v |-> path]

SitemapLine == [f |-> "sitemap", v |-> <<"x">>]

RB_PRIVATE == <<UAStar, Dis(P_private)>>

RB_TMP_PRIVATE == <<UAStar, Dis(PathOf(<<"tmp">>)), Dis(P_private)>>

RB_EMPTY_LAST == <<UAStar, Dis(<<>>)>>

RB_EMPTY_MID == <<UAStar, Dis(<<>>), SitemapLine>>

RB_NONE == <<>>

RobotsTexts == {RB_PRIVATE, RB_TMP_PRIVATE, RB_EMPTY_LAST, RB_EMPTY_MID, RB_NONE}

\* Attempts of fetch_robot_txt (retries = 3).
RETRIES == 3

IsEmptyDisallow(line) == line.f = "disallow" /\ line.v = <<>>

\* "Disallow:" in content and "Disallow:\n" not in content  (content is
\* stripped, so only a line that is not the last is followed by "\n").
NeedsAdjust(text) ==
    /\ \E i \in 1..Len(text) : text[i].f = "disallow"
    /\ ~\E i \in 1..(Len(text) - 1) : IsEmptyDisallow(text[i])

\* Lines 55-63: a line that is exactly "Disallow:" becomes "Disallow: /".
AdjustRobots(text) ==
    IF NeedsAdjust(text)
    THEN [i \in 1..Len(text) |-> IF IsEmptyDisallow(text[i]) THEN Dis(P_root) ELSE text[i]]
    ELSE text

\* RuleLine(path, allowance): an empty Disallow is an allow-everything rule.
RuleLine(line) == [path |-> line.v, allowance |-> (line.f = "allow" \/ line.v = <<>>)]

\* rp.parse(lines): the rule lines of the "User-agent: *" group; rule lines
\* before any user-agent line are ignored.
RECURSIVE ParseRules(_, _)
ParseRules(lines, inGroup) ==
    IF lines = <<>> THEN <<>>
    ELSE IF Head(lines).f = "user-agent" THEN ParseRules(Tail(lines), TRUE)
    ELSE IF Head(lines).f \in {"disallow", "allow"} /\ inGroup
         THEN <<RuleLine(Head(lines))>> \o ParseRules(Tail(lines), inGroup)
         ELSE ParseRules(Tail(lines), inGroup)

\* rp.parse(["User-agent: *", "Disallow: /"])
DenyAll == <<[path |-> P_root, allowance |-> FALSE]>>

\* fetch_robot_txt(base_url) when the server holds `text` and the first
\* `fails` requests fail: the policy and the number of requests made.
fetch_robot_txt(text, fails) ==
    IF fails < RETRIES
    THEN [rules |-> ParseRules(AdjustRobots(text), FALSE), requests |-> fails + 1]
    ELSE [rules |-> DenyAll, requests |-> RETRIES]

\* Fault variant of Allowance: a rule matches only the path equal to it.
RECURSIVE Allowance_exact(_, _)
Allowance_exact(rules, path) ==
    IF rules = <<>> THEN TRUE
    ELSE IF Head(rules).path = path THEN Head(rules).allowance
    ELSE Allowance_exact(Tail(rules), path)

\* rp.can_fetch(USER_AGENT, url): the first rule whose path is a prefix of the
\* URL's path decides; no rule means allowed.
RECURSIVE Allowance(_, _)
Allowance(rules, path) ==
    IF rules = <<>> THEN TRUE
    ELSE IF IsPrefix(Head(rules).path, path) THEN Head(rules).allowance
    ELSE Allowance(Tail(rules), path)

can_fetch(rp, url) == Allowance(rp.rules, IF url.path = <<>> THEN P_root ELSE url.path)

\* --- documents served by the web ---
DocHtml == [root |-> "html", entries |-> <<>>]

DocMalformed == [root |-> "malformed", entries |-> <<>>]

UrlSet(locs) == [root |-> "urlset", entries |-> [i \in 1..Len(locs) |-> [tag |-> "url", loc |-> locs[i]]]]

SitemapIndex(locs) == [root |-> "sitemapindex", entries |-> [i \in 1..Len(locs) |-> [tag |-> "sitemap", loc |-> locs[i]]]]

\* ET.fromstring(content) succeeds (an HTML page may parse as well; its root
\* is then neither a sitemapindex nor a urlset).
ParsesAsXml(doc) == doc.root # "malformed"

\* extract_xml(xml): the <loc> of every <url> element of the document.
RECURSIVE UrlLocs(_)
UrlLocs(entries) ==
    IF entries = <<>> THEN <<>>
    ELSE (IF Head(entries).tag = "url" THEN <<Head(entries).loc>> ELSE <<>>) \o UrlLocs(Tail(entries))

extract_xml(doc) == UrlLocs(doc.entries)

\* The webs the resolver is run against.
Webs ==
    {[u \in SiteUrls |-> IF u = U_idx THEN di ELSE IF u = U_s1 THEN d1 ELSE IF u = U_s2 THEN d2 ELSE DocHtml] :
        di \in {SitemapIndex(<<U_s1, U_s2>>), UrlSet(<<U_s1, U_s2>>)},
        d1 \in {UrlSet(<<U_a, U_b>>), UrlSet(<<U_pa, U_fpb>>), UrlSet(<<U_s1>>), DocMalformed},
        d2 \in {UrlSet(<<U_c, U_d>>), UrlSet(<<U_a, U_pa>>), UrlSet(<<U_fc, U_fpb>>)}}

Seeds == {U_idx, U_s1}

\* Scenario A of the specification: an index of two urlsets of two pages each.
ScenarioA == [u \in SiteUrls |-> IF u = U_idx THEN SitemapIndex(<<U_s1, U_s2>>) ELSE IF u = U_s1 THEN UrlSet(<<U_a, U_b>>) ELSE IF u = U_s2 THEN UrlSet(<<U_c, U_d>>) ELSE DocHtml]

ResolverIdle ==
    /\ rs_pc = "idle"
    /\ rs_seed = U_idx
    /\ rs_rp = [rules |-> <<>>, requests |-> 0]
    /\ urls_to_check = <<>>
    /\ final_urls = <<>>
    /\ rs_faults = FALSE

\* The resolver is not running: a fixed environment.
ResolverOff ==
    /\ rs_web = ScenarioA
    /\ rs_robots = [o \in Origins |-> RB_NONE]
    /\ ResolverIdle

InitResolver ==
    /\ rs_web \in Webs
    /\ rs_robots \in [Origins -> RobotsTexts]
    /\ ResolverIdle

\* retrieve_final_urls(base_url, session), lines 165-168.
RsStart ==
    /\ rs_pc = "idle"
    /\ \E seed \in Seeds, fails \in 0..RETRIES :
        /\ rs_seed' = seed
        /\ rs_rp' = fetch_robot_txt(rs_robots[get_base_url(seed)], fails)
        /\ urls_to_check' = <<seed>>
        /\ rs_faults' = (fails = RETRIES)
    /\ final_urls' = <<>>
    /\ rs_pc' = "loop"
    /\ UNCHANGED <<rs_web, rs_robots, dedupVars, loaderVars, stageVars, extractVars, gateVars, sessionVars, runVars, cc_procs>>

\* fetch_xml(url, session): "none" when the URL's own robots.txt denies it,
\* "raise" when the response is not a 200, else the document.
fetch_xml(url, fails, ok) ==
    IF ~can_fetch(fetch_robot_txt(rs_robots[get_base_url(url)], fails), url) THEN [res |-> "none", doc |-> DocHtml]
    ELSE IF ~ok THEN [res |-> "raise", doc |-> DocHtml]
    ELSE [res |-> "content", doc |-> rs_web[url]]

\* is_sitemap(url, session): any exception gives False.
is_sitemap(url, fails, ok) ==
    LET c == fetch_xml(url, fails, ok)
    IN  c.res = "content" /\ ParsesAsXml(c.doc) /\ c.doc.root \in {"sitemapindex", "urlset"}

\* One iteration: the popped URL is disallowed by rp and skipped.
RsSkip ==
    /\ rs_pc = "loop" /\ urls_to_check # <<>>
    /\ ~can_fetch(rs_rp, Head(urls_to_check))
    /\ urls_to_check' = Tail(urls_to_check)
    /\ UNCHANGED <<rs_web, rs_robots, rs_pc, rs_seed, rs_rp, final_urls, rs_faults, dedupVars, loaderVars, stageVars, extractVars, gateVars, sessionVars, runVars, cc_procs>>

\* One iteration: is_sitemap is true and the second fetch_xml returns the
\* document, whose extracted URLs are appended to the worklist.
RsExpand_drop ==
    /\ rs_pc = "loop" /\ urls_to_check # <<>>
    /\ can_fetch(rs_rp, Head(urls_to_check))
    /\ \E f1 \in 0..RETRIES, f2 \in 0..RETRIES :
        /\ is_sitemap(Head(urls_to_check), f1, TRUE)
        /\ fetch_xml(Head(urls_to_check), f2, TRUE).res = "content"
        /\ urls_to_check' = Tail(urls_to_check) \o
              SelectSeq(extract_xml(fetch_xml(Head(urls_to_check), f2, TRUE).doc), LAMBDA u : u # Head(urls_to_check))
    /\ UNCHANGED <<rs_web, rs_robots, rs_pc, rs_seed, rs_rp, final_urls, rs_faults, dedupVars, loaderVars, stageVars, extractVars, gateVars, sessionVars, runVars, cc_procs>>

RsExpand ==
    /\ rs_pc = "loop" /\ urls_to_check # <<>>
    /\ can_fetch(rs_rp, Head(urls_to_check))
    /\ \E f1 \in 0..RETRIES, f2 \in 0..RETRIES :
        /\ is_sitemap(Head(urls_to_check), f1, TRUE)
        /\ fetch_xml(Head(urls_to_check), f2, TRUE).res = "content"
        /\ urls_to_check' = Tail(urls_to_check) \o extract_xml(fetch_xml(Head(urls_to_check), f2, TRUE).doc)
    /\ UNCHANGED <<rs_web, rs_robots, rs_pc, rs_seed, rs_rp, final_urls, rs_faults, dedupVars, loaderVars, stageVars, extractVars, gateVars, sessionVars, runVars, cc_procs>>

\* One iteration: is_sitemap is true but the second fetch_xml raises, or
\* returns None on which extract_xml raises; the exception leaves the resolver.
RsRaise ==
    /\ rs_pc = "loop" /\ urls_to_check # <<>>
    /\ can_fetch(rs_rp, Head(urls_to_check))
    /\ \E f1 \in 0..RETRIES, f2 \in 0..RETRIES, ok2 \in BOOLEAN :
        /\ is_sitemap(Head(urls_to_check), f1, TRUE)
        /\ fetch_xml(Head(urls_to_check), f2, ok2).res # "content"
    /\ urls_to_check' = Tail(urls_to_check)
    /\ rs_pc' = "raised"
    /\ rs_faults' = TRUE
    /\ UNCHANGED <<rs_web, rs_robots, rs_seed, rs_rp, final_urls, dedupVars, loaderVars, stageVars, extractVars, gateVars, sessionVars, runVars, cc_procs>>

\* One iteration: is_sitemap is false; the URL is appended to final_urls.
RsTerminal_drop ==
    /\ rs_pc = "loop" /\ urls_to_check # <<>>
    /\ can_fetch(rs_rp, Head(urls_to_check))
    /\ \E f1 \in 0..RETRIES, ok1 \in BOOLEAN :
        /\ ~is_sitemap(Head(urls_to_check), f1, ok1)
        /\ rs_faults' = (rs_faults \/ fetch_xml(Head(urls_to_check), f1, ok1).res # "content")
        /\ final_urls' = IF ParsesAsXml(fetch_xml(Head(urls_to_check), f1, ok1).doc)
                           THEN Append(final_urls, Head(urls_to_check)) ELSE final_urls
    /\ urls_to_check' = Tail(urls_to_check)
    /\ UNCHANGED <<rs_web, rs_robots, rs_pc, rs_seed, rs_rp, dedupVars, loaderVars, stageVars, extractVars, gateVars, sessionVars, runVars, cc_procs>>

RsTerminal ==
    /\ rs_pc = "loop" /\ urls_to_check # <<>>
    /\ can_fetch(rs_rp, Head(urls_to_check))
    /\ \E f1 \in 0..RETRIES, ok1 \in BOOLEAN :
        /\ ~is_sitemap(Head(urls_to_check), f1, ok1)
        /\ rs_faults' = (rs_faults \/ fetch_xml(Head(urls_to_check), f1, ok1).res # "content")
    /\ urls_to_check' = Tail(urls_to_check)
    /\ final_urls' = Append(final_urls, Head(urls_to_check))
    /\ UNCHANGED <<rs_web, rs_robots, rs_pc, rs_seed, rs_rp, dedupVars, loaderVars, stageVars, extractVars, gateVars, sessionVars, runVars, cc_procs>>

\* The worklist is empty: return final_urls.
RsReturn ==
    /\ rs_pc = "loop" /\ urls_to_check = <<>>
    /\ rs_pc' = "returned"
    /\ UNCHANGED <<rs_web, rs_robots, rs_seed, rs_rp, urls_to_check, final_urls, rs_faults, dedupVars, loaderVars, stageVars, extractVars, gateVars, sessionVars, runVars, cc_procs>>

NextResolver == RsStart \/ RsSkip \/ RsExpand \/ RsRaise \/ RsTerminal \/ RsReturn

(***************************************************************************)
(* The sitemap-driven stage: jf_loader of utils/etl/custom_loader.py with  *)
(* crawl of utils/etl/jf_crawler.py and refine_text / load_JSON_files of   *)
(* utils/etl/refine_html.py.                                               *)
(***************************************************************************)
\* Runs of jf_loader.
MaxRuns == 3

\* config.sitemaps
sitemaps == <<Url("A"), Url("B")>>

\* A page URL: the part before the last "/" and the last path segment.
Page(dir, seg) == [dir |-> dir, seg |-> seg]

PG1 == Page("housing", "apply")

PG2 == Page("health", "apply")

PG3 == Page("health", "clinic")

\* parse_url(page, session) on a 200 answer: the <loc> entries of the sitemap.
SitemapPages(seed) == IF seed = Url("A") THEN <<PG1, PG3>> ELSE IF seed = Url("B") THEN <<PG3, PG2>> ELSE <<>>

\* An element of a parsed document, in document order: its tag and its text.
Element(tag, text) == [tag |-> tag, text |-> text]

\* A parsed HTML document: the <title> string (<<>> when there is none) and
\* the elements of the tree in document order.
HtmlDoc(title, elems) == [title |-> title, elems |-> elems]

\* response.text of a page of the site.
PageHtml(pg) ==
    IF pg = PG1 THEN HtmlDoc(<<"Housing application">>, <<Element("h1", "Apply"), Element("p", "Fill in the form"), Element("h2", "Documents")>>)
    ELSE IF pg = PG2 THEN HtmlDoc(<<"Health application">>, <<Element("h1", "Apply"), Element("h3", "")>>)
    ELSE HtmlDoc(<<>>, <<Element("p", "Opening hours")>>)

\* load_docs: add_docs(chunks, 300)
LOAD_BATCH == 300

\* url_list.extend(parse_url(page, session)) for the seeds[i..]
RECURSIVE ParseAll(_)
ParseAll(seeds) == IF seeds = <<>> THEN <<>> ELSE SitemapPages(Head(seeds)) \o ParseAll(Tail(seeds))

\* filename = url.rstrip("/").split("/")[-1] + ".html"
HtmlName(pg) == [base |-> pg.seg, ext |-> "html"]

\* open(os.path.join(HTML_DIR, filename), "w"): an existing file is replaced.
SaveHtml_keep(files, pg) ==
    IF \E f \in files : f.name = HtmlName(pg) THEN files ELSE files \cup {[name |-> HtmlName(pg), body |-> PageHtml(pg)]}

SaveHtml(files, pg) == {f \in files : f.name # HtmlName(pg)} \cup {[name |-> HtmlName(pg), body |-> PageHtml(pg)]}

\* The loop of download_and_save_html over urls[1..n]; ok[i] says whether
\* the i-th response has status 200.
RECURSIVE SaveAll(_, _, _, _)
SaveAll(files, urls, ok, n) ==
    IF n = 0 THEN files
    ELSE LET prev == SaveAll(files, urls, ok, n - 1)
         IN  IF ok[n] THEN SaveHtml(prev, urls[n]) ELSE prev

\* The tags parse_and_save collects.
HEADER_TAGS == {"h1", "h2", "h3", "h4", "h5", "h6"}

\* soup.find_all(tags): the elements with one of the tags, in document order.
RECURSIVE find_all_first(_, _)
find_all_first(elems, tags) ==
    IF elems = <<>> THEN <<>>
    ELSE IF Head(elems).tag \in tags THEN <<Head(elems)>>
    ELSE find_all_first(Tail(elems), tags)

RECURSIVE find_all(_, _)
find_all(elems, tags) ==
    IF elems = <<>> THEN <<>>
    ELSE (IF Head(elems).tag \in tags THEN <<Head(elems)>> ELSE <<>>) \o find_all(Tail(elems), tags)

\* str(element): the serialized markup of an element.
Markup(e) == <<"<", e.tag, ">", e.text, "</", e.tag, ">">>

\* headers: one content_dict (tag, text, html) appended per element of find_all.
Headers(doc) ==
    [i \in 1..Len(find_all(doc.elems, HEADER_TAGS)) |->
        LET e == find_all(doc.elems, HEADER_TAGS)[i] IN [tag |-> e.tag, text |-> e.text, html |-> Markup(e)]]

\* json_filename = os.path.basename(file_path).replace(".html", ".json")
JsonName(n) == [base |-> n.base, ext |-> "json"]

\* parse_and_save(file_path): the JSON record written for an HTML file; the
\* title is soup.title.string if there is a title, else "No title found".
JsonOf(f) ==
    [name |-> JsonName(f.name), valid |-> TRUE,
     title |-> IF f.body.title # <<>> THEN f.body.title[1] ELSE "No title found",
     headers |-> Headers(f.body)]

\* parse_and_save(file_path) on the folder jsons: a file that cannot be read
\* or parsed (f in bad) is reported and left out, nothing is raised; else
\* open(json_path, "w") replaces a record of the same name.
parse_and_save(jsons, f, bad) ==
    IF f \in bad THEN jsons ELSE {x \in jsons : x.name # JsonOf(f).name} \cup {JsonOf(f)}

\* os.listdir gives the files of a folder in an order of its own.
Listings(S) == {l \in [1..Cardinality(S) -> S] : \A a, b \in 1..Cardinality(S) : l[a] = l[b] => a = b}

\* refine_text(): parse_and_save for each HTML file of the listing.
RECURSIVE refine_text(_, _, _)
refine_text(jsons, listing, bad) ==
    IF listing = <<>> THEN jsons
    ELSE refine_text(parse_and_save(jsons, Head(listing), bad), Tail(listing), bad)

\* The loop over data.get("headers", []): a Document per header whose text is
\* not empty, with metadata {"source": filename}.
RECURSIVE HeaderDocs_all(_, _)
HeaderDocs_all(headers, filename) ==
    IF headers = <<>> THEN <<>>
    ELSE <<[page_content |-> Head(headers).text, source |-> filename]>> \o HeaderDocs_all(Tail(headers), filename)

RECURSIVE HeaderDocs(_, _)
HeaderDocs(headers, filename) ==
    IF headers = <<>> THEN <<>>
    ELSE (IF Head(headers).text # "" THEN <<[page_content |-> Head(headers).text, source |-> filename]>> ELSE <<>>)
         \o HeaderDocs(Tail(headers), filename)

\* load_JSON_files(folder_path) over a listing of the *.json files: a file
\* whose json.load raises (valid = FALSE) is reported and the loop continues.
RECURSIVE load_JSON_files_reraise(_)
load_JSON_files_reraise(listing) ==
    IF listing = <<>> THEN [docs |-> <<>>, raised |-> FALSE]
    ELSE IF ~Head(listing).valid THEN [docs |-> <<>>, raised |-> TRUE]
    ELSE LET rest == load_JSON_files_reraise(Tail(listing))
         IN  [docs |-> HeaderDocs(Head(listing).headers, Head(listing).name) \o rest.docs, raised |-> rest.raised]

RECURSIVE load_JSON_files(_)
load_JSON_files(listing) ==
    IF listing = <<>> THEN [docs |-> <<>>, raised |-> FALSE]
    ELSE LET rest == load_JSON_files(Tail(listing))
         IN  IF ~Head(listing).valid THEN rest
             ELSE [docs |-> HeaderDocs(Head(listing).headers, Head(listing).name) \o rest.docs, raised |-> rest.raised]

InitStage ==
    /\ jf_pc = "idle"
    /\ jf_runs = 0
    /\ jf_new = <<>>
    /\ jf_downloads = <<>> /\ jf_ok = <<>>
    /\ html_files = {}
    /\ json_files = {}

\* jf_loader is called: what every entry does first.
JfEnter ==
    /\ jf_pc \in {"idle", "returned", "raised"}
    /\ jf_runs < MaxRuns
    /\ jf_runs' = jf_runs + 1
    /\ tracked_file' = check_duplicate(sitemaps, tracked_file).file
    /\ jf_new' = check_duplicate(sitemaps, tracked_file).ret
    /\ dd_last' = [called |-> TRUE, pre |-> tracked_file, cands |-> sitemaps, ret |-> check_duplicate(sitemaps, tracked_file).ret]
    /\ dd_repeat' = (dd_last.called /\ dd_last.cands = sitemaps)
    /\ vs_calls' = <<>>

\* crawl() finds no new sitemap and returns False; jf_loader returns.
JfCrawlNoNew ==
    /\ JfEnter
    /\ check_duplicate(sitemaps, tracked_file).ret = <<>>
    /\ jf_downloads' = <<>> /\ jf_ok' = <<>>
    /\ jf_pc' = "returned"
    /\ UNCHANGED <<html_files, json_files, ld_pc, ld_chunks, ld_n, ld_i, ld_index0, ld_loads, vs_index, resolverVars, extractVars, gateVars, sessionVars, runVars, cc_procs>>

\* crawl() parses every new sitemap and requests every listed page; the
\* pages answered with 200 are staged; crawl returns True.
JfCrawlOk ==
    /\ JfEnter
    /\ check_duplicate(sitemaps, tracked_file).ret # <<>>
    /\ LET url_list == ParseAll(check_duplicate(sitemaps, tracked_file).ret)
       IN  /\ jf_downloads' = url_list
           /\ \E ok \in [1..Len(url_list) -> BOOLEAN] :
                /\ jf_ok' = ok
                /\ html_files' = SaveAll(html_files, url_list, ok, Len(url_list))
    /\ jf_pc' = "crawled"
    /\ UNCHANGED <<json_files, ld_pc, ld_chunks, ld_n, ld_i, ld_index0, ld_loads, vs_index, resolverVars, extractVars, gateVars, sessionVars, runVars, cc_procs>>

\* crawl() raises: fetch_xml fails on a new sitemap (nothing requested yet),
\* or session.get raises on the n-th page after the earlier ones were handled.
JfCrawlRaise ==
    /\ JfEnter
    /\ check_duplicate(sitemaps, tracked_file).ret # <<>>
    /\ LET url_list == ParseAll(check_duplicate(sitemaps, tracked_file).ret)
       IN  \/ /\ jf_downloads' = <<>> /\ jf_ok' = <<>>
              /\ html_files' = html_files
           \/ \E n \in 1..Len(url_list), ok \in [1..Len(url_list) -> BOOLEAN] :
                /\ jf_downloads' = SubSeq(url_list, 1, n)
                /\ jf_ok' = [i \in 1..n |-> i < n /\ ok[i]]
                /\ html_files' = SaveAll(html_files, url_list, ok, n - 1)
    /\ jf_pc' = "raised"
    /\ UNCHANGED <<json_files, ld_pc, ld_chunks, ld_n, ld_i, ld_index0, ld_loads, vs_index, resolverVars, extractVars, gateVars, sessionVars, runVars, cc_procs>>

\* new_url is True: refine_text(), load_JSON_files(JSON_DOCS_DIR) and
\* load_docs(json_docs) up to the entry of add_docs(chunks, 300).  Every
\* document is a header text and, being short, one chunk.
JfRefineLoad_consume ==
    /\ jf_pc = "crawled"
    /\ \E bad \in SUBSET html_files, hl \in Listings(html_files) :
        /\ json_files' = refine_text(json_files, hl, bad)
        /\ \E jl \in Listings(refine_text(json_files, hl, bad)) :
              AddDocsEnter(load_JSON_files(jl).docs, LOAD_BATCH)
    /\ jf_pc' = "loading"
    /\ html_files' = {}
    /\ UNCHANGED <<jf_runs, jf_new, jf_downloads, jf_ok, ld_loads, dedupVars, resolverVars, extractVars, gateVars, sessionVars, runVars, cc_procs>>

JfRefineLoad ==
    /\ jf_pc = "crawled"
    /\ \E bad \in SUBSET html_files, hl \in Listings(html_files) :
        /\ json_files' = refine_text(json_files, hl, bad)
        /\ \E jl \in Listings(refine_text(json_files, hl, bad)) :
              AddDocsEnter(load_JSON_files(jl).docs, LOAD_BATCH)
    /\ jf_pc' = "loading"
    /\ UNCHANGED <<jf_runs, jf_new, jf_downloads, jf_ok, html_files, ld_loads, dedupVars, resolverVars, extractVars, gateVars, sessionVars, runVars, cc_procs>>

\* add_docs returned: jf_loader returns.
JfLoaded ==
    /\ jf_pc = "loading" /\ ld_pc = "done"
    /\ jf_pc' = "returned"
    /\ UNCHANGED <<jf_runs, jf_new, jf_downloads, jf_ok, html_files, json_files, dedupVars, loaderVars, resolverVars, extractVars, gateVars, sessionVars, runVars, cc_procs>>

\* add_docs raised: the exception leaves jf_loader.
JfLoadRaised ==
    /\ jf_pc = "loading" /\ ld_pc = "raised"
    /\ jf_pc' = "raised"
    /\ UNCHANGED <<jf_runs, jf_new, jf_downloads, jf_ok, html_files, json_files, dedupVars, loaderVars, resolverVars, extractVars, gateVars, sessionVars, runVars, cc_procs>>

NextStage ==
    \/ JfCrawlNoNew \/ JfCrawlOk \/ JfCrawlRaise \/ JfRefineLoad \/ JfLoaded \/ JfLoadRaised
    \/ AddBatchOk \/ AddBatchRaise \/ AddDocsReturn

(***************************************************************************)
(* ContentExtractor on its own: refine_text and load_JSON_files of         *)
(* utils/etl/refine_html.py over staged folders of any content.            *)
(***************************************************************************)
\* Elements of a staged document.
MaxElems == 3

\* The staged documents: up to MaxElems elements, each a heading with text,
\* a heading without text or a paragraph.
StagedDocs ==
    {HtmlDoc(<<"Home">>, e) :
        e \in SeqsUpTo({Element("h1", "Apply"), Element("h2", ""), Element("p", "Fill in the form")}, MaxElems)}

\* A JSON file on which json.load raises.
MalformedJson(n) == [name |-> n, valid |-> FALSE, title |-> "", headers |-> <<>>]

\* The HTML folder: apply.html of any content, with or without clinic.html.
StagedHtmlSets ==
    {{[name |-> HtmlName(PG1), body |-> d]} \cup rest :
        d \in StagedDocs, rest \in {{}, {[name |-> HtmlName(PG3), body |-> PageHtml(PG1)]}}}

\* The JSON folder before the step: empty, or a malformed clinic.json, or a
\* malformed file next to the apply.json of an earlier extraction.
StagedJsonSets ==
    {{}, {MalformedJson(JsonName(HtmlName(PG3)))},
     {MalformedJson([base |-> "broken", ext |-> "json"]), JsonOf([name |-> HtmlName(PG1), body |-> PageHtml(PG2)])}}

\* No operation of the extractor, the robots gate, the HTTP client or the
\* orchestrator has been called yet.
ComponentsIdle ==
    /\ ex_last = [op |-> "none", htmls |-> {}, jsons |-> {}, bad |-> {}, listing |-> <<>>, docs |-> <<>>, raised |-> FALSE]
    /\ rb_pc = "idle" /\ rb_text = RB_NONE /\ rb_attempt = 0 /\ rb_log = <<>> /\ rb_rp = [rules |-> <<>>, requests |-> 0]
    /\ hs_pc = "idle" /\ hs_scheme = "https" /\ hs_log = <<>> /\ hs_result = [kind |-> "none", status |-> "none"]
    /\ run_pc = "idle" /\ run_count = 0 /\ run_log = <<>> /\ run_fetched = {} /\ run_index0 = 0
    /\ cc_procs = [p \in {1, 2} |-> [pc |-> "idle", cands |-> <<>>, tracked |-> <<>>, ret |-> <<>>, read_at |-> 0, wrote |-> 0]]

InitExtract ==
    /\ InitDedup /\ InitLoader /\ ResolverOff /\ ComponentsIdle
    /\ jf_pc = "idle"
    /\ jf_runs = 0
    /\ jf_new = <<>>
    /\ jf_downloads = <<>> /\ jf_ok = <<>>
    /\ html_files \in StagedHtmlSets
    /\ json_files \in StagedJsonSets

\* refine_text(): the files in bad cannot be read or parsed.
RefineText ==
    /\ \E bad \in SUBSET html_files, hl \in Listings(html_files) :
        /\ json_files' = refine_text(json_files, hl, bad)
        /\ ex_last' = [op |-> "refine", htmls |-> html_files, jsons |-> json_files, bad |-> bad,
                       listing |-> hl, docs |-> <<>>, raised |-> FALSE]
    /\ UNCHANGED <<jf_pc, jf_runs, jf_new, jf_downloads, jf_ok, html_files, dedupVars, loaderVars, resolverVars, gateVars, sessionVars, runVars, cc_procs>>

\* load_JSON_files(JSON_DOCS_DIR)
LoadJson ==
    /\ \E jl \in Listings(json_files) :
        ex_last' = [op |-> "load", htmls |-> html_files, jsons |-> json_files, bad |-> {j \in json_files : ~j.valid},
                    listing |-> jl, docs |-> load_JSON_files(jl).docs, raised |-> load_JSON_files(jl).raised]
    /\ UNCHANGED <<stageVars, dedupVars, loaderVars, resolverVars, gateVars, sessionVars, runVars, cc_procs>>

NextExtract == RefineText \/ LoadJson

(***************************************************************************)
(* RobotsGate on its own: the request loop of fetch_robot_txt of           *)
(* utils/jf_crawler.py.                                                    *)
(***************************************************************************)
\* fetch_robot_txt(base_url) is called; attempt = 0.
GateCall ==
    /\ rb_pc \in {"idle", "returned"}
    /\ rb_text' \in RobotsTexts
    /\ rb_attempt' = 0
    /\ rb_log' = <<>>
    /\ rb_rp' = [rules |-> <<>>, requests |-> 0]
    /\ rb_pc' = "loop"
    /\ UNCHANGED <<dedupVars, loaderVars, resolverVars, stageVars, extractVars, sessionVars, runVars, cc_procs>>

\* One pass of the while loop: requests.get answers 200 and the parsed policy
\* is returned, or it answers another status or raises RequestException and
\* attempt is incremented.
GateRequest ==
    /\ rb_pc = "loop"
    /\ rb_attempt < RETRIES
    /\ \E o \in {"200", "status", "exception"} :
        /\ rb_log' = Append(rb_log, o)
        /\ IF o = "200"
           THEN /\ rb_rp' = [rules |-> ParseRules(AdjustRobots(rb_text), FALSE), requests |-> Len(rb_log) + 1]
                /\ rb_pc' = "returned"
                /\ rb_attempt' = rb_attempt
           ELSE /\ rb_attempt' = rb_attempt + 1
                /\ UNCHANGED <<rb_rp, rb_pc>>
    /\ UNCHANGED <<rb_text, dedupVars, loaderVars, resolverVars, stageVars, extractVars, sessionVars, runVars, cc_procs>>

\* The loop ends without a 200: rp.parse(["User-agent: *", "Disallow: /"]).
GateGiveUp_open ==
    /\ rb_pc = "loop"
    /\ rb_attempt >= RETRIES
    /\ rb_rp' = [rules |-> <<>>, requests |-> Len(rb_log)]
    /\ rb_pc' = "returned"
    /\ UNCHANGED <<rb_text, rb_attempt, rb_log, dedupVars, loaderVars, resolverVars, stageVars, extractVars, sessionVars, runVars, cc_procs>>

GateGiveUp ==
    /\ rb_pc = "loop"
    /\ rb_attempt >= RETRIES
    /\ rb_rp' = [rules |-> DenyAll, requests |-> Len(rb_log)]
    /\ rb_pc' = "returned"
    /\ UNCHANGED <<rb_text, rb_attempt, rb_log, dedupVars, loaderVars, resolverVars, stageVars, extractVars, sessionVars, runVars, cc_procs>>

NextGate == GateCall \/ GateRequest \/ GateGiveUp

(***************************************************************************)
(* PoliteHttpClient: start_session and fetch_xml of utils/etl/jf_crawler.py *)
(***************************************************************************)
\* Retry(total=5, ...)
RETRY_TOTAL == 5

\* session.mount("https://", HTTPAdapter(max_retries=retries)): only https
\* URLs go through the retrying adapter; the default adapter never retries.
RetryBudget(scheme) == IF scheme = "https" THEN RETRY_TOTAL ELSE 0

\* The adapter sends the request again after a connection failure or a
\* response whose status is in status_forcelist.
Retryable_any(o) == o # "200"

Retryable(o) == o = "conn" \/ o \in {"403", "500", "502", "503", "504"}

\* fetch_xml(url, session): session.get(url, headers=headers) starts.
FetchCall ==
    /\ hs_pc \in {"idle", "returned", "raised"}
    /\ hs_scheme' \in {"http", "https"}
    /\ hs_log' = <<>>
    /\ hs_result' = [kind |-> "none", status |-> "none"]
    /\ hs_pc' = "sending"
    /\ UNCHANGED <<dedupVars, loaderVars, resolverVars, stageVars, extractVars, gateVars, runVars, cc_procs>>

\* One request of session.get and what follows its outcome: a re-request
\* while the outcome is retryable and retries are left, an exception of the
\* adapter when they are used up, else the response reaches fetch_xml, which
\* returns response.content on a 200 and raises on any other status.
FetchResponse ==
    /\ hs_pc = "sending"
    /\ \E o \in {"200", "404", "403", "503", "conn"} :
        /\ hs_log' = Append(hs_log, o)
        /\ IF Retryable(o) /\ Len(hs_log) < RetryBudget(hs_scheme)
           THEN UNCHANGED <<hs_pc, hs_result>>
           ELSE IF Retryable(o) /\ (o = "conn" \/ hs_scheme = "https")
           THEN hs_pc' = "raised" /\ hs_result' = [kind |-> "adapter_error", status |-> o]
           ELSE IF o = "200"
           THEN hs_pc' = "returned" /\ hs_result' = [kind |-> "content", status |-> o]
           ELSE hs_pc' = "raised" /\ hs_result' = [kind |-> "status_error", status |-> o]
    /\ UNCHANGED <<hs_scheme, dedupVars, loaderVars, resolverVars, stageVars, extractVars, gateVars, runVars, cc_procs>>

NextSession == FetchCall \/ FetchResponse

(***************************************************************************)
(* Orchestrator: start_loader of utils/etl/custom_loader.py with           *)
(* scrape_urls, load_urls and jf_loader.                                   *)
(***************************************************************************)
\* Runs of start_loader.
MaxStarts == 2

\* config.r_url_list
r_url_list == <<Url("C"), Url("D")>>

\* config.cls_url_list
cls_url_list == <<Url("E")>>

\* config.url_list
url_list == <<Url("F")>>

\* Paths below the data root.
CRAWL_TEMP == <<"crawl_temp">>

HTML_DIR == <<"crawl_temp", "html_files">>

JSON_DOCS_DIR == <<"crawl_temp", "processed_text">>

TRACKED_URLS_FILE == <<"tracked_urls.txt">>

\* rmtree(target) seen from a folder kept at path dir: its files are gone when
\* dir lies in the tree of target.
rmtree(files, dir, target) == IF IsPrefix(target, dir) THEN {} ELSE files

\* The chunks of the documents a source URL gives: the page and a linked page
\* for a recursive scrape, the page for a direct load.
SourceOf(u) == [base |-> u[1], ext |-> "url"]

ScrapeChunks(u) == <<[page_content |-> "page", source |-> SourceOf(u)], [page_content |-> "linked page", source |-> SourceOf(u)]>>

\* The chunks of urls[1..n], in order.
RECURSIVE ScrapeChunksOf(_, _)
ScrapeChunksOf(urls, n) == IF n = 0 THEN <<>> ELSE ScrapeChunksOf(urls, n - 1) \o ScrapeChunks(urls[n])

RECURSIVE LoadChunksOf(_, _)
LoadChunksOf(urls, n) ==
    IF n = 0 THEN <<>> ELSE LoadChunksOf(urls, n - 1) \o <<[page_content |-> "page", source |-> SourceOf(urls[n])]>>

Event(stage, ev) == [stage |-> stage, ev |-> ev]

\* start_loader() is called.
RunStart_direct ==
    /\ run_pc \in {"idle", "done", "aborted"}
    /\ run_count < MaxStarts
    /\ run_count' = run_count + 1
    /\ run_log' = <<>>
    /\ run_fetched' = {}
    /\ run_index0' = Len(vs_index)
    /\ run_pc' = "urls"
    /\ UNCHANGED <<dedupVars, loaderVars, resolverVars, stageVars, extractVars, gateVars, sessionVars, cc_procs>>

RunStart ==
    /\ run_pc \in {"idle", "done", "aborted"}
    /\ run_count < MaxStarts
    /\ run_count' = run_count + 1
    /\ run_log' = <<>>
    /\ run_fetched' = {}
    /\ run_index0' = Len(vs_index)
    /\ run_pc' = "r"
    /\ UNCHANGED <<dedupVars, loaderVars, resolverVars, stageVars, extractVars, gateVars, sessionVars, cc_procs>>

\* What every call of check_duplicate(urls) in a stage does.
StageDedup_skip(urls) ==
    /\ tracked_file' = tracked_file
    /\ dd_last' = [called |-> TRUE, pre |-> tracked_file, cands |-> urls, ret |-> check_duplicate(urls, tracked_file).ret]
    /\ dd_repeat' = (dd_last.called /\ dd_last.cands = urls)

StageDedup(urls) ==
    /\ tracked_file' = check_duplicate(urls, tracked_file).file
    /\ dd_last' = [called |-> TRUE, pre |-> tracked_file, cands |-> urls, ret |-> check_duplicate(urls, tracked_file).ret]
    /\ dd_repeat' = (dd_last.called /\ dd_last.cands = urls)

\* scrape_urls(urls) as stage p, followed by stage q: every new URL is scraped
\* and its chunks added, or the k-th new URL raises in scrape_main, chunking
\* or add_docs after at most a part of its chunks was added.
ScrapeUrls_swallow(p, urls, q) ==
    /\ run_pc = p
    /\ StageDedup(urls)
    /\ LET new == check_duplicate(urls, tracked_file).ret
       IN  \/ /\ run_fetched' = run_fetched \cup SeqSet(new)
              /\ vs_index' = vs_index \o ScrapeChunksOf(new, Len(new))
              /\ run_log' = run_log \o <<Event(p, "start"), Event(p, "return")>>
              /\ run_pc' = q
           \/ \E k \in 1..Len(new) : \E part \in 0..(Len(ScrapeChunks(new[k])) - 1) :
              /\ run_fetched' = run_fetched \cup SeqSet(SubSeq(new, 1, k))
              /\ vs_index' = vs_index \o ScrapeChunksOf(new, k - 1) \o SubSeq(ScrapeChunks(new[k]), 1, part)
              /\ run_log' = run_log \o <<Event(p, "start"), Event(p, "raise")>>
              /\ run_pc' = q
    /\ UNCHANGED <<run_count, run_index0, ld_pc, ld_chunks, ld_n, ld_i, ld_index0, ld_loads, vs_calls, resolverVars, stageVars, extractVars, gateVars, sessionVars, cc_procs>>

ScrapeUrls(p, urls, q) ==
    /\ run_pc = p
    /\ StageDedup(urls)
    /\ LET new == check_duplicate(urls, tracked_file).ret
       IN  \/ /\ run_fetched' = run_fetched \cup SeqSet(new)
              /\ vs_index' = vs_index \o ScrapeChunksOf(new, Len(new))
              /\ run_log' = run_log \o <<Event(p, "start"), Event(p, "return")>>
              /\ run_pc' = q
           \/ \E k \in 1..Len(new) : \E part \in 0..(Len(ScrapeChunks(new[k])) - 1) :
              /\ run_fetched' = run_fetched \cup SeqSet(SubSeq(new, 1, k))
              /\ vs_index' = vs_index \o ScrapeChunksOf(new, k - 1) \o SubSeq(ScrapeChunks(new[k]), 1, part)
              /\ run_log' = run_log \o <<Event(p, "start"), Event(p, "raise")>>
              /\ run_pc' = "aborted"
    /\ UNCHANGED <<run_count, run_index0, ld_pc, ld_chunks, ld_n, ld_i, ld_index0, ld_loads, vs_calls, resolverVars, stageVars, extractVars, gateVars, sessionVars, cc_procs>>

\* load_urls(url_list): the new URLs are loaded together, chunked and added,
\* or the loader raises after requesting some of them, or add_docs raises
\* after at most a part of the chunks was added.
RunLoadUrls ==
    /\ run_pc = "urls"
    /\ StageDedup(url_list)
    /\ LET new == check_duplicate(url_list, tracked_file).ret
       IN  \/ /\ run_fetched' = run_fetched \cup SeqSet(new)
              /\ vs_index' = vs_index \o LoadChunksOf(new, Len(new))
              /\ run_log' = run_log \o <<Event("urls", "start"), Event("urls", "return")>>
              /\ run_pc' = "jf"
           \/ /\ new # <<>>
              /\ \E got \in SUBSET SeqSet(new) : run_fetched' = run_fetched \cup got
              /\ vs_index' = vs_index
              /\ run_log' = run_log \o <<Event("urls", "start"), Event("urls", "raise")>>
              /\ run_pc' = "aborted"
           \/ /\ new # <<>>
              /\ run_fetched' = run_fetched \cup SeqSet(new)
              /\ \E part \in 0..(Len(LoadChunksOf(new, Len(new))) - 1) :
                    vs_index' = vs_index \o SubSeq(LoadChunksOf(new, Len(new)), 1, part)
              /\ run_log' = run_log \o <<Event("urls", "start"), Event("urls", "raise")>>
              /\ run_pc' = "aborted"
    /\ UNCHANGED <<run_count, run_index0, ld_pc, ld_chunks, ld_n, ld_i, ld_index0, ld_loads, vs_calls, resolverVars, stageVars, extractVars, gateVars, sessionVars, cc_procs>>

\* jf_loader() is called.
RunJfCall ==
    /\ run_pc = "jf"
    /\ jf_runs < MaxRuns
    /\ jf_pc' = "idle"
    /\ run_log' = Append(run_log, Event("jf", "start"))
    /\ run_pc' = "in_jf"
    /\ UNCHANGED <<run_count, run_fetched, run_index0, jf_runs, jf_new, jf_downloads, jf_ok, html_files, json_files, dedupVars, loaderVars, resolverVars, extractVars, gateVars, sessionVars, cc_procs>>

\* The steps of jf_loader inside the run.
RunJfStep ==
    /\ run_pc = "in_jf"
    /\ \/ jf_pc = "idle" /\ (JfCrawlNoNew \/ JfCrawlOk \/ JfCrawlRaise)
       \/ JfRefineLoad \/ AddBatchOk \/ AddBatchRaise \/ AddDocsReturn \/ JfLoaded \/ JfLoadRaised

\* jf_loader returned.
RunJfReturn ==
    /\ run_pc = "in_jf" /\ jf_pc = "returned"
    /\ run_log' = Append(run_log, Event("jf", "return"))
    /\ run_pc' = "cleanup"
    /\ UNCHANGED <<run_count, run_fetched, run_index0, dedupVars, loaderVars, resolverVars, stageVars, extractVars, gateVars, sessionVars, cc_procs>>

\* jf_loader raised: except, print, raise.
RunJfRaise_cleanup ==
    /\ run_pc = "in_jf" /\ jf_pc = "raised"
    /\ run_log' = Append(run_log, Event("jf", "raise"))
    /\ run_pc' = "aborted"
    /\ html_files' = rmtree(html_files, HTML_DIR, CRAWL_TEMP)
    /\ json_files' = rmtree(json_files, JSON_DOCS_DIR, CRAWL_TEMP)
    /\ UNCHANGED <<run_count, run_fetched, run_index0, jf_pc, jf_runs, jf_new, jf_downloads, jf_ok, dedupVars, loaderVars, resolverVars, extractVars, gateVars, sessionVars, cc_procs>>

RunJfRaise ==
    /\ run_pc = "in_jf" /\ jf_pc = "raised"
    /\ run_log' = Append(run_log, Event("jf", "raise"))
    /\ run_pc' = "aborted"
    /\ UNCHANGED <<run_count, run_fetched, run_index0, dedupVars, loaderVars, resolverVars, stageVars, extractVars, gateVars, sessionVars, cc_procs>>

\* if os.path.exists(CRAWL_TEMP): rmtree(CRAWL_TEMP); start_loader returns.
RunCleanup_wipe ==
    /\ run_pc = "cleanup"
    /\ html_files' = rmtree(html_files, HTML_DIR, CRAWL_TEMP)
    /\ json_files' = rmtree(json_files, JSON_DOCS_DIR, CRAWL_TEMP)
    /\ tracked_file' = MissingFile
    /\ run_log' = run_log \o <<Event("cleanup", "start"), Event("cleanup", "return")>>
    /\ run_pc' = "done"
    /\ UNCHANGED <<run_count, run_fetched, run_index0, jf_pc, jf_runs, jf_new, jf_downloads, jf_ok, dd_last, dd_repeat, loaderVars, resolverVars, extractVars, gateVars, sessionVars, cc_procs>>

RunCleanup ==
    /\ run_pc = "cleanup"
    /\ html_files' = rmtree(html_files, HTML_DIR, CRAWL_TEMP)
    /\ json_files' = rmtree(json_files, JSON_DOCS_DIR, CRAWL_TEMP)
    /\ tracked_file' = (IF IsPrefix(CRAWL_TEMP, TRACKED_URLS_FILE) THEN MissingFile ELSE tracked_file)
    /\ run_log' = run_log \o <<Event("cleanup", "start"), Event("cleanup", "return")>>
    /\ run_pc' = "done"
    /\ UNCHANGED <<run_count, run_fetched, run_index0, jf_pc, jf_runs, jf_new, jf_downloads, jf_ok, dd_last, dd_repeat, loaderVars, resolverVars, extractVars, gateVars, sessionVars, cc_procs>>

NextRun ==
    \/ RunStart \/ ScrapeUrls("r", r_url_list, "cls") \/ ScrapeUrls("cls", cls_url_list, "urls") \/ RunLoadUrls
    \/ RunJfCall \/ RunJfStep \/ RunJfReturn \/ RunJfRaise \/ RunCleanup

(***************************************************************************)
(* Two processes calling check_duplicate of utils/etl/redundancy_check.py  *)
(* on the same state file: the read (file_to_list) and the write           *)
(* (open "w") of a call are separate steps, nothing locks the file.        *)
(***************************************************************************)
\* Candidates of one concurrent caller.
MaxConcCands == 2

\* The state file is missing or holds one URL; no call is under way.
InitConc ==
    /\ tracked_file \in {MissingFile, WriteTracked(<<Url("A")>>)}
    /\ dd_last = NoCall /\ dd_repeat = FALSE
    /\ InitLoader /\ ResolverOff /\ InitStage /\ ComponentsIdle

\* Lines 18-30 of a call by process p: the file is read and the candidates
\* are scanned against the list read.
CcRead(p) ==
    /\ cc_procs[p].pc = "idle"
    /\ \E cands \in SeqsUpTo(Urls, MaxConcCands) :
        LET acc == ScanUrls(cands, 1, [tracked |-> ReadTracked(tracked_file), to_load |-> <<>>])
        IN  cc_procs' = [cc_procs EXCEPT ![p] = [pc |-> "scanned", cands |-> cands, tracked |-> acc.tracked,
                                                 ret |-> acc.to_load, read_at |-> Cardinality({q \in {1, 2} : cc_procs[q].wrote > 0}), wrote |-> 0]]
    /\ UNCHANGED <<dedupVars, loaderVars, resolverVars, stageVars, extractVars, gateVars, sessionVars, runVars>>

\* Lines 32-36 of the call: the file is rewritten from the process's own list
\* and urls_to_load is returned.
CcWrite_merge(p) ==
    /\ cc_procs[p].pc = "scanned"
    /\ tracked_file' = check_duplicate(cc_procs[p].cands, tracked_file).file
    /\ cc_procs' = [cc_procs EXCEPT ![p].pc = "done", ![p].wrote = Cardinality({q \in {1, 2} : cc_procs[q].wrote > 0}) + 1]
    /\ UNCHANGED <<dd_last, dd_repeat, loaderVars, resolverVars, stageVars, extractVars, gateVars, sessionVars, runVars>>

CcWrite(p) ==
    /\ cc_procs[p].pc = "scanned"
    /\ tracked_file' = WriteTracked(cc_procs[p].tracked)
    /\ cc_procs' = [cc_procs EXCEPT ![p].pc = "done", ![p].wrote = Cardinality({q \in {1, 2} : cc_procs[q].wrote > 0}) + 1]
    /\ UNCHANGED <<dd_last, dd_repeat, loaderVars, resolverVars, stageVars, extractVars, gateVars, sessionVars, runVars>>

NextConc == \E p \in {1, 2} : CcRead(p) \/ CcWrite(p)

Init == InitDedup /\ InitLoader /\ ResolverOff /\ InitStage /\ ComponentsIdle

InitWeb == InitDedup /\ InitLoader /\ InitResolver /\ InitStage /\ ComponentsIdle

NextDedup == CheckDuplicate /\ UNCHANGED <<loaderVars, resolverVars, stageVars, extractVars, gateVars, sessionVars, runVars, cc_procs>>

SpecDedup == Init /\ [][NextDedup]_vars

NextLoader == AddDocsCall \/ AddBatchOk \/ AddBatchRaise \/ AddDocsReturn

SpecLoader == Init /\ [][NextLoader]_vars

SpecResolver == InitWeb /\ [][NextResolver]_vars

\* The webs, under robots.txt files that allow everything or keep /private.
InitLive ==
    /\ InitDedup /\ InitLoader /\ InitStage /\ ComponentsIdle
    /\ rs_web \in Webs
    /\ rs_robots \in [Origins -> {RB_NONE, RB_PRIVATE}]
    /\ ResolverIdle

\* The resolver is sequential code that keeps running: a step that can be
\* taken is taken.
SpecResolverLive == InitLive /\ [][NextResolver]_vars /\ WF_vars(NextResolver)

SpecStage == Init /\ [][NextStage]_vars

SpecExtract == InitExtract /\ [][NextExtract]_vars

SpecGate == Init /\ [][NextGate]_vars

SpecSession == Init /\ [][NextSession]_vars

SpecRun == Init /\ [][NextRun]_vars

SpecConc == InitConc /\ [][NextConc]_vars

(***************************************************************************)
(* Properties of DedupTracker                                              *)
(***************************************************************************)
\* The URLs a state file holds: the content of each line, without its terminator.
PersistedUrls(f) == IF f.exists THEN [i \in 1..Len(f.lines) |-> SubSeq(f.lines[i], 1, Len(f.lines[i]) - 1)] ELSE <<>>

FirstIdx(x, s) == CHOOSE i \in 1..Len(s) : s[i] = x /\ \A j \in 1..(i - 1) : s[j] # x

\* C2: check_duplicate returns, in candidate order and each once, exactly the
\* candidates that are not in the tracked list T, and persists T followed by
\* the returned URLs; a missing file counts as T = [].
C2_FilterNew ==
    dd_last.called =>
        LET T == PersistedUrls(dd_last.pre)
            C == dd_last.cands
            R == dd_last.ret
        IN  /\ SeqSet(R) = SeqSet(C) \ SeqSet(T)
            /\ \A i, j \in 1..Len(R) : i < j => R[i] # R[j] /\ FirstIdx(R[i], C) < FirstIdx(R[j], C)
            /\ tracked_file.exists
            /\ PersistedUrls(tracked_file) = T \o R

\* Scenario C of the specification: T = [A,B], candidates [B,C,D].
C2_Witness ==
    /\ dd_last.called
    /\ PersistedUrls(dd_last.pre) = <<Url("A"), Url("B")>>
    /\ dd_last.cands = <<Url("B"), Url("C"), Url("D")>>
    /\ dd_last.ret = <<Url("C"), Url("D")>>
    /\ PersistedUrls(tracked_file) = <<Url("A"), Url("B"), Url("C"), Url("D")>>

\* C3: the set of persisted URLs after a check_duplicate call contains the set
\* persisted before it; the tracked set never shrinks.
C3_Monotone == [][SeqSet(PersistedUrls(tracked_file)) \subseteq SeqSet(PersistedUrls(tracked_file'))]_vars

\* A call on a non-empty tracked file with both tracked and new candidates.
C3_Witness ==
    /\ dd_last.called
    /\ Len(dd_last.pre.lines) > 0
    /\ dd_last.ret # <<>>
    /\ Len(dd_last.ret) < Len(dd_last.cands)
    /\ SeqSet(PersistedUrls(dd_last.pre)) \subseteq SeqSet(PersistedUrls(tracked_file))

\* C4: a second check_duplicate call with the same candidate list returns the
\* empty list and leaves the persisted state as the first call left it.
C4_Idempotent == dd_repeat => dd_last.ret = <<>> /\ tracked_file = dd_last.pre

C4_Witness == dd_repeat /\ Len(dd_last.cands) >= 2 /\ dd_last.ret = <<>>

(***************************************************************************)
(* Properties of IngestionLoader                                           *)
(***************************************************************************)
RECURSIVE Flatten(_)
Flatten(calls) == IF calls = <<>> THEN <<>> ELSE Head(calls).batch \o Flatten(Tail(calls))

CeilDiv(a, b) == (a + b - 1) \div b

\* C7: no call of add_documents receives more than n chunks.
C7_BatchBound == \A c \in 1..Len(vs_calls) : Len(vs_calls[c].batch) <= ld_n

\* A finished call with a full batch followed by a shorter last batch.
C7_Witness ==
    /\ ld_pc = "done"
    /\ Len(vs_calls) >= 2
    /\ Len(vs_calls[1].batch) = ld_n
    /\ Len(vs_calls[Len(vs_calls)].batch) < ld_n

\* C8: when no upsert fails, add_docs makes ceil(len(chunks)/n) calls whose
\* batches, concatenated in call order, are the chunk list; no call for an
\* empty list.
C8_Complete ==
    ld_pc = "done" =>
        /\ Len(vs_calls) = CeilDiv(Len(ld_chunks), ld_n)
        /\ Flatten(vs_calls) = ld_chunks
        /\ vs_index = ld_index0 \o ld_chunks
        /\ (ld_chunks = <<>> => vs_calls = <<>>)

C8_Witness ==
    /\ ld_pc = "done"
    /\ Len(ld_chunks) = 5
    /\ ld_n = 2
    /\ Len(vs_calls) = 3
    /\ Flatten(vs_calls) = ld_chunks

\* C9: when the upsert of batch k raises, add_docs ends with the error: batch k
\* is the last call and was made once, no later batch is submitted, and the
\* batches 1..k-1 stay in the index.
C9_FailFast ==
    /\ [](\A c \in 1..Len(vs_calls) : ~vs_calls[c].ok => c = Len(vs_calls) /\ ld_pc = "raised")
    /\ [](ld_pc = "raised" =>
            LET k == Len(vs_calls)
            IN  /\ k = (ld_i \div ld_n) + 1
                /\ \A c \in 1..k : vs_calls[c].batch = Slice(ld_chunks, (c - 1) * ld_n, ld_n)
                /\ IsPrefix(ld_index0 \o Flatten(SubSeq(vs_calls, 1, k - 1)), vs_index)
                /\ IsPrefix(vs_index, ld_index0 \o Flatten(vs_calls))
                /\ Len(vs_index) < Len(ld_index0 \o Flatten(vs_calls)))
    /\ [][ld_pc = "raised" /\ ld_pc' = "raised" => vs_calls' = vs_calls /\ vs_index' = vs_index]_vars

\* The third batch of a call raised after two committed batches.
C9_Witness ==
    /\ ld_pc = "raised"
    /\ Len(vs_calls) = 3
    /\ Len(ld_chunks) > 3 * ld_n
    /\ IsPrefix(ld_index0 \o Flatten(SubSeq(vs_calls, 1, 2)), vs_index)

(***************************************************************************)
(* Properties of SitemapResolver                                           *)
(***************************************************************************)
\* The "User-agent: *" group of the text has "Disallow: /private", with no
\* Allow line and no empty Disallow line before it.
DisallowsPrivate(text) ==
    /\ text # <<>>
    /\ text[1] = UAStar
    /\ \E i \in 2..Len(text) :
        /\ text[i] = Dis(P_private)
        /\ \A j \in 2..(i - 1) : text[j].f = "disallow" /\ text[j].v # <<>>

UnderPrivate(url) == url.path = P_private \/ IsPrefix(P_private \o <<SL>>, url.path)

\* C1: when the robots.txt of the seed's origin disallows /private, no URL
\* whose path lies under /private is ever in final_urls.
C1_RobotsCompliance ==
    DisallowsPrivate(rs_robots[get_base_url(rs_seed)]) =>
        \A i \in 1..Len(final_urls) : ~UnderPrivate(final_urls[i])

\* A finished pass under a fetched policy that met /private URLs of both
\* origins in the sitemaps and emitted the other URLs.
C1_Witness ==
    /\ rs_pc = "returned"
    /\ DisallowsPrivate(rs_robots[get_base_url(rs_seed)])
    /\ rs_rp.rules # DenyAll
    /\ rs_seed = U_idx
    /\ rs_web[U_idx] = UrlSet(<<U_s1, U_s2>>)
    /\ rs_web[U_s1] = UrlSet(<<U_pa, U_fpb>>)
    /\ rs_web[U_s2] = UrlSet(<<U_a, U_pa>>)
    /\ final_urls = <<U_a>>

\* C6: a sitemap-index seed with two child urlsets of two <loc> entries each
\* makes the resolver return the four terminal URLs in discovery order (all
\* requests answered, nothing disallowed).
C6_Expansion ==
    (rs_pc = "returned" /\ ~rs_faults /\ rs_seed = U_idx /\ rs_web = ScenarioA
        /\ rs_robots = [o \in Origins |-> RB_NONE])
    => final_urls = <<U_a, U_b, U_c, U_d>>

(***************************************************************************)
(* Properties of the sitemap-driven stage                                  *)
(***************************************************************************)
\* C5: from the second run of the sitemap-driven stage on, check_duplicate
\* finds no new sitemap, no page is downloaded and no chunk is upserted.
C5_StageIdempotent ==
    jf_runs >= 2 =>
        /\ jf_new = <<>>
        /\ jf_downloads = <<>>
        /\ vs_calls = <<>>
        /\ jf_pc = "returned"

\* A second run after a first run that staged pages and upserted chunks.
C5_Witness ==
    /\ jf_runs = 2
    /\ jf_pc = "returned"
    /\ jf_new = <<>>
    /\ \E f \in html_files : f.body = PageHtml(PG1)
    /\ Len(vs_index) >= 2
    /\ vs_calls = <<>>

(***************************************************************************)
(* Properties of ContentExtractor                                          *)
(***************************************************************************)
\* The positions of the elements of a document whose tag is in a tag set.
Matches(elems, tags) == {i \in 1..Len(elems) : elems[i].tag \in tags}

\* The position of the k-th such element.
NthMatch(elems, tags, k) == CHOOSE i \in Matches(elems, tags) : Cardinality({j \in Matches(elems, tags) : j <= i}) = k

\* C12: for a staged HTML document with K elements whose tag is in the tag
\* set, refine_text writes a record whose headers list has exactly K blocks,
\* the k-th block carrying the tag, text and markup of the k-th such element.
C12_ExtractionComplete ==
    ex_last.op = "refine" =>
        \A f \in ex_last.htmls \ ex_last.bad :
            \E j \in json_files :
                /\ j.name = JsonName(f.name) /\ j.valid
                /\ Len(j.headers) = Cardinality(Matches(f.body.elems, HEADER_TAGS))
                /\ \A k \in 1..Len(j.headers) :
                      LET e == f.body.elems[NthMatch(f.body.elems, HEADER_TAGS, k)]
                      IN  /\ j.headers[k].tag = e.tag
                          /\ j.headers[k].text = e.text
                          /\ j.headers[k].html = <<"<", e.tag, ">", e.text, "</", e.tag, ">">>

\* A document with a paragraph between two headings was extracted: two blocks.
C12_Witness ==
    /\ ex_last.op = "refine"
    /\ \E f \in ex_last.htmls \ ex_last.bad :
        /\ f.body.elems = <<Element("h2", ""), Element("p", "Fill in the form"), Element("h1", "Apply")>>
        /\ \E j \in json_files : j.name = JsonName(f.name) /\ Len(j.headers) = 2 /\ j.headers[2].tag = "h1"

\* The documents of a result that come from one file, in result order.
DocsOf(docs, n) == SelectSeq(docs, LAMBDA d : d.source = n)

\* The positions of the blocks of a headers list that have text.
TextBlocks(headers) == {i \in 1..Len(headers) : headers[i].text # ""}

\* The position of the k-th block that has text.
NthTextBlock(headers, k) == CHOOSE i \in TextBlocks(headers) : Cardinality({j \in TextBlocks(headers) : j <= i}) = k

\* C13 as stated: load_JSON_files emits exactly one content record per block
\* of every readable record, in block order, with source the file's name.
C13_OnePerBlock ==
    ex_last.op = "load" =>
        \A j \in ex_last.jsons :
            j.valid =>
                /\ Len(DocsOf(ex_last.docs, j.name)) = Len(j.headers)
                /\ \A k \in 1..Len(j.headers) : DocsOf(ex_last.docs, j.name)[k].page_content = j.headers[k].text

\* C13, amended: load_JSON_files emits exactly one content record per block
\* whose text is not empty, in block order, with the block's text as content
\* and source the file's name; a block with empty text gives no record.
C13_OnePerTextBlock ==
    ex_last.op = "load" =>
        /\ \A i \in 1..Len(ex_last.docs) : \E j \in ex_last.jsons : j.valid /\ ex_last.docs[i].source = j.name
        /\ \A j \in ex_last.jsons :
            j.valid =>
                /\ Len(DocsOf(ex_last.docs, j.name)) = Cardinality(TextBlocks(j.headers))
                /\ \A k \in 1..Cardinality(TextBlocks(j.headers)) :
                      DocsOf(ex_last.docs, j.name)[k].page_content = j.headers[NthTextBlock(j.headers, k)].text

\* A record with an empty heading before a heading with text was flattened
\* into the one document of the second heading.
C13_Witness ==
    /\ ex_last.op = "load"
    /\ \E j \in ex_last.jsons :
        /\ j.valid /\ Len(j.headers) = 2
        /\ j.headers[1].text = "" /\ j.headers[2].text = "Apply"
        /\ DocsOf(ex_last.docs, j.name) = <<[page_content |-> "Apply", source |-> j.name]>>

\* A listing without the files of a set.
Without(listing, bad) == SelectSeq(listing, LAMBDA f : f \notin bad)

Failures(log) == Cardinality({i \in 1..Len(log) : log[i] # "200"})

\* C15: fetch_robot_txt makes at most 3 requests, none after a 200, and when
\* all 3 fail the policy it returns permits no URL of the site.
C15_FailClosed ==
    /\ Len(rb_log) <= 3
    /\ \A i \in 1..Len(rb_log) : rb_log[i] = "200" => (i = Len(rb_log) /\ rb_pc = "returned")
    /\ rb_pc = "returned" =>
          /\ rb_rp = fetch_robot_txt(rb_text, Failures(rb_log))
          /\ Failures(rb_log) = Len(rb_log) =>
                /\ Len(rb_log) = 3
                /\ \A u \in SiteUrls : ~can_fetch(rb_rp, u)

\* Three failed requests for a robots.txt that, had it been fetched, would
\* allow everything.
C15_Witness ==
    /\ rb_pc = "returned"
    /\ rb_text = RB_NONE
    /\ rb_log = <<"status", "exception", "status">>
    /\ rb_rp.rules = DenyAll

\* The last outcome of a log.
Last(log) == log[Len(log)]

\* C16: a fetch issues at most 6 requests, re-requests only after a
\* connection failure or a status in {403,500,502,503,504}, returns the body
\* exactly when a response has status 200, and raises when the retries are
\* used up or the final status is not 200.
C16_RetryProtocol ==
    /\ Len(hs_log) <= 6
    /\ \A i \in 1..(Len(hs_log) - 1) : hs_log[i] \in {"conn", "403", "500", "502", "503", "504"}
    /\ (hs_pc = "sending" /\ hs_log # <<>>) => Last(hs_log) \in {"conn", "403", "500", "502", "503", "504"}
    /\ hs_pc = "returned" => (Last(hs_log) = "200" /\ hs_result.kind = "content")
    /\ hs_pc = "raised" =>
          /\ Last(hs_log) # "200"
          /\ hs_result.kind # "content"
          /\ Len(hs_log) = 1 + RetryBudget(hs_scheme) \/ Last(hs_log) \notin {"conn", "403", "500", "502", "503", "504"}
    /\ (hs_log # <<>> /\ Last(hs_log) = "200") => hs_pc = "returned"

\* Three retryable outcomes, then a 200 whose body is returned.
C16_Witness ==
    /\ hs_pc = "returned"
    /\ hs_scheme = "https"
    /\ hs_log = <<"503", "conn", "403", "200">>
    /\ hs_result.kind = "content"

(***************************************************************************)
(* Properties of the Orchestrator                                          *)
(***************************************************************************)
\* C17: the events of a run follow the order scrape_urls(r_url_list),
\* scrape_urls(cls_url_list), load_urls(url_list), jf_loader, cleanup, each
\* stage starting after the previous one returned; a source of a stage is
\* fetched only after the stages before it returned.
C17_StageOrder ==
    /\ Len(run_log) <= 10
    /\ \A i \in 1..Len(run_log) :
          /\ run_log[i].stage = <<"r", "cls", "urls", "jf", "cleanup">>[(i + 1) \div 2]
          /\ i % 2 = 1 => run_log[i].ev = "start"
          /\ i % 2 = 0 => (run_log[i].ev = "return" \/ (run_log[i].ev = "raise" /\ i = Len(run_log)))
    /\ run_fetched \cap SeqSet(cls_url_list) # {} => InSeq(Event("r", "return"), run_log)
    /\ run_fetched \cap SeqSet(url_list) # {} => InSeq(Event("cls", "return"), run_log)
    /\ run_pc = "in_jf" => (InSeq(Event("urls", "return"), run_log) /\ ~InSeq(Event("cleanup", "start"), run_log))
    /\ run_pc = "done" => InSeq(Event("jf", "return"), run_log)

\* A run in which every stage fetched its sources and returned.
C17_Witness ==
    /\ run_pc = "done"
    /\ Len(run_log) = 10
    /\ run_fetched = SeqSet(r_url_list) \cup SeqSet(cls_url_list) \cup SeqSet(url_list)
    /\ jf_downloads # <<>>

\* The position of a stage in start_loader.
StageNo(stage) == CHOOSE n \in 1..5 : <<"r", "cls", "urls", "jf", "cleanup">>[n] = stage

\* The stage a configured source URL belongs to.
UrlStage(u) == IF InSeq(u, r_url_list) THEN 1 ELSE IF InSeq(u, cls_url_list) THEN 2 ELSE IF InSeq(u, url_list) THEN 3 ELSE 4

\* The stage the source of an ingested chunk belongs to.
SourceStage(src) ==
    IF \E u \in SeqSet(r_url_list) : SourceOf(u) = src THEN 1
    ELSE IF \E u \in SeqSet(cls_url_list) : SourceOf(u) = src THEN 2
    ELSE IF \E u \in SeqSet(url_list) : SourceOf(u) = src THEN 3
    ELSE 4

\* C18: a stage that raises ends the run as raised: the raise is the last
\* event of the run, and nothing of a later stage was started, fetched or
\* ingested in that run.
C18_Abort ==
    /\ \A i \in 1..Len(run_log) : run_log[i].ev = "raise" => (i = Len(run_log) /\ run_pc = "aborted")
    /\ run_pc = "aborted" =>
          /\ run_log # <<>>
          /\ Last(run_log).ev = "raise"
          /\ \A i \in 1..Len(run_log) : StageNo(run_log[i].stage) <= StageNo(Last(run_log).stage)
          /\ \A u \in run_fetched : UrlStage(u) <= StageNo(Last(run_log).stage)
          /\ \A i \in (run_index0 + 1)..Len(vs_index) : SourceStage(vs_index[i].source) <= StageNo(Last(run_log).stage)

\* The second recursive list raised after the first was ingested: the direct
\* list and the sitemaps were not touched.
C18_Witness ==
    /\ run_pc = "aborted"
    /\ Last(run_log) = Event("cls", "raise")
    /\ run_fetched = SeqSet(r_url_list) \cup SeqSet(cls_url_list)
    /\ Len(vs_index) = run_index0 + 5
    /\ jf_runs = 0

\* C19 as stated: the staging area holds no HTML file that has already been
\* extracted into its JSON record.
C19_NoExtractedHtml == \A f \in html_files : JsonOf(f) \notin json_files

\* C19, amended: extraction leaves the staged HTML file in place; a staged
\* HTML file disappears only in the cleanup step that ends a run.
C19_HtmlKeptUntilCleanup ==
    [][(\E f \in html_files : \A g \in html_files' : g.name # f.name) => (run_pc = "cleanup" /\ run_pc' = "done")]_vars

\* Inside the sitemap stage, after extraction: an extracted HTML file is
\* still staged next to its JSON record.
C19_Witness ==
    /\ run_pc = "in_jf"
    /\ jf_pc \in {"loading", "returned"}
    /\ \E f \in html_files : JsonOf(f) \in json_files /\ f.body = PageHtml(PG3)

\* C20: a step changes the tracked-URL file only by a call of
\* check_duplicate at the entry of a stage; every other step, the cleanup
\* that ends a run included, leaves the file as it is.
C20_Frame ==
    [][tracked_file' # tracked_file =>
          /\ run_pc \in {"r", "cls", "urls", "in_jf"}
          /\ run_pc' # "done"
          /\ dd_last'.called /\ dd_last'.pre = tracked_file
          /\ tracked_file' = check_duplicate(dd_last'.cands, tracked_file).file]_vars

\* A finished run: every configured source is persisted, the staging area
\* was filled and removed, and the tracked file is still there.
C20_Witness ==
    /\ run_pc = "done"
    /\ tracked_file.exists
    /\ Len(tracked_file.lines) = Len(r_url_list) + Len(cls_url_list) + Len(url_list) + Len(sitemaps)
    /\ jf_downloads # <<>>
    /\ html_files = {}

(***************************************************************************)
(* Further properties of DedupTracker                                      *)
(***************************************************************************)
\* C21 as stated: a call with n candidates grows the persisted list by n
\* entries, already-tracked candidates being written again.
C21_GrowsByCandidates ==
    dd_last.called => Len(PersistedUrls(tracked_file)) = Len(PersistedUrls(dd_last.pre)) + Len(dd_last.cands)

\* The number of lines of a state file that hold a URL.
Occurrences(u, f) == Cardinality({i \in 1..Len(PersistedUrls(f)) : PersistedUrls(f)[i] = u})

\* C21, amended: a call grows the persisted list by the number of distinct
\* candidates that were not tracked; an already-tracked candidate is not
\* written again, and after the call every candidate is persisted once.
C21_GrowsByNew ==
    dd_last.called =>
        /\ Len(PersistedUrls(tracked_file)) =
              Len(PersistedUrls(dd_last.pre)) + Cardinality(SeqSet(dd_last.cands) \ SeqSet(PersistedUrls(dd_last.pre)))
        /\ \A u \in SeqSet(dd_last.cands) : Occurrences(u, tracked_file) = 1

\* A call whose candidates held a tracked URL, and a new URL twice.
C21_Witness ==
    /\ dd_last.called
    /\ Len(dd_last.cands) = 3
    /\ Len(dd_last.ret) = 1
    /\ \E i \in 1..3 : InSeq(dd_last.cands[i], PersistedUrls(dd_last.pre))
    /\ Len(PersistedUrls(tracked_file)) = Len(PersistedUrls(dd_last.pre)) + 1

\* C22: two calls on the same state file do not see each other: the file
\* ends as the list of the call that wrote last, and when both calls read
\* before either wrote, a new URL both were given is returned to both and a
\* URL only the first writer persisted is missing from the final file.
C22_LostUpdate ==
    (\A p \in {1, 2} : cc_procs[p].pc = "done") =>
        LET last == CHOOSE p \in {1, 2} : cc_procs[p].wrote = 2
            first == 3 - last
        IN  /\ tracked_file = WriteTracked(cc_procs[last].tracked)
            /\ (cc_procs[1].read_at = 0 /\ cc_procs[2].read_at = 0) =>
                  /\ \A u \in SeqSet(cc_procs[1].ret) \cap SeqSet(cc_procs[2].cands) : InSeq(u, cc_procs[2].ret)
                  /\ \A u \in SeqSet(cc_procs[first].ret) \ SeqSet(cc_procs[last].cands) :
                        ~InSeq(u, PersistedUrls(tracked_file))

\* Both calls read before either wrote: B was returned as new to both, and C,
\* returned to and written by the first writer, is not in the final file.
C22_Witness ==
    /\ \A p \in {1, 2} : cc_procs[p].pc = "done" /\ cc_procs[p].read_at = 0
    /\ InSeq(Url("B"), cc_procs[1].ret) /\ InSeq(Url("B"), cc_procs[2].ret)
    /\ \E p \in {1, 2} : cc_procs[p].wrote = 1 /\ InSeq(Url("C"), cc_procs[p].ret)
    /\ ~InSeq(Url("C"), PersistedUrls(tracked_file))

\* The chunks of the index that come from URL u.
ChunksFrom(u, index) == {i \in 1..Len(index) : index[i].source = SourceOf(u)}

\* C23: a URL is tracked by the stage that is given it, whether or not the
\* stage goes on to fetch it, and a tracked URL is filtered out from then on:
\* no later step fetches it or adds a chunk of it, and once the sitemaps are
\* tracked a crawl downloads nothing and jf_loader returns without loading.
C23_TrackedBeforeIngested ==
    [][/\ \A u \in SeqSet(r_url_list \o cls_url_list \o url_list) :
            /\ u \in run_fetched' => InSeq(u, PersistedUrls(tracked_file'))
            /\ InSeq(u, PersistedUrls(tracked_file)) =>
                  /\ u \in run_fetched' => u \in run_fetched
                  /\ ChunksFrom(u, vs_index') = ChunksFrom(u, vs_index)
                  /\ InSeq(u, PersistedUrls(tracked_file'))
       /\ (run_pc = "in_jf" /\ jf_pc = "idle" /\ \A i \in 1..Len(sitemaps) : InSeq(sitemaps[i], PersistedUrls(tracked_file))) =>
            (html_files' = html_files /\ jf_pc' = "returned")]_vars

\* The first run raised at C, the first URL of r_url_list, before any chunk of
\* it was added; the second run went through all stages: C and D are tracked,
\* neither was fetched by the second run and the index has no chunk of them.
C23_Witness ==
    /\ run_count = 2 /\ run_pc = "done"
    /\ \A u \in {Url("C"), Url("D")} :
          InSeq(u, PersistedUrls(tracked_file)) /\ u \notin run_fetched /\ ChunksFrom(u, vs_index) = {}
    /\ ChunksFrom(Url("E"), vs_index) # {}

\* The URLs the resolver enqueues when it expands u.
SitemapRefs(u) == IF rs_web[u].root \in {"sitemapindex", "urlset"} THEN SeqSet(extract_xml(rs_web[u])) ELSE {}

RECURSIVE ReachIn(_, _)
ReachIn(S, n) == IF n = 0 THEN S ELSE ReachIn(S \cup UNION {SitemapRefs(u) : u \in S}, n - 1)

\* The reference graph reachable from the seed has a cycle.
Cyclic(seed) == \E u \in ReachIn({seed}, Cardinality(SiteUrls)) : u \in ReachIn(SitemapRefs(u), Cardinality(SiteUrls))

C25_ParseFailureFallthrough ==
    [][(rs_pc = "loop" /\ urls_to_check # <<>> /\ can_fetch(rs_rp, Head(urls_to_check))
            /\ ~ParsesAsXml(rs_web[Head(urls_to_check)])) =>
         (/\ final_urls' = Append(final_urls, Head(urls_to_check))
          /\ urls_to_check' = Tail(urls_to_check)
          /\ rs_pc' = "loop")]_vars

\* The body of s1 is malformed: s1 was emitted first and the pass went on to
\* resolve the pages of s2 and returned.
C25_Witness ==
    /\ rs_pc = "returned" /\ ~rs_faults
    /\ ~ParsesAsXml(rs_web[U_s1])
    /\ Len(final_urls) = 3 /\ final_urls[1] = U_s1

\* C26: every URL the resolver emits is permitted by the robots.txt of the
\* URL's own origin.
C26_OwnOriginPolicy ==
    \A i \in 1..Len(final_urls) :
        can_fetch(fetch_robot_txt(rs_robots[get_base_url(final_urls[i])], 0), final_urls[i])

\* C27: within one crawl no URL is requested twice by
\* download_and_save_html.
C27_FetchedOnce ==
    \A i, j \in 1..Len(jf_downloads) : jf_downloads[i] = jf_downloads[j] => i = j

\* The requests of the crawl answered with 200 whose file name is n.
SavedAs(n) == {i \in 1..Len(jf_downloads) : jf_ok[i] /\ HtmlName(jf_downloads[i]) = n}

\* C28: after download_and_save_html the staging folder holds one file per
\* last path segment of a page answered with 200, and its body is the body of
\* the last such page with that segment.
C28_LastWriterWins ==
    jf_pc = "crawled" =>
        html_files = {[name |-> n, body |-> PageHtml(jf_downloads[CHOOSE i \in SavedAs(n) : \A j \in SavedAs(n) : j <= i])] :
                        n \in {HtmlName(jf_downloads[i]) : i \in {k \in 1..Len(jf_downloads) : jf_ok[k]}}}

\* housing/apply and health/apply were both answered with 200: apply.html
\* holds the health page, requested last.
C28_Witness ==
    /\ jf_pc = "crawled"
    /\ \E i, j \in 1..Len(jf_downloads) :
          i < j /\ jf_ok[i] /\ jf_ok[j] /\ jf_downloads[i] = PG1 /\ jf_downloads[j] = PG2
    /\ [name |-> HtmlName(PG1), body |-> PageHtml(PG2)] \in html_files
    /\ \A f \in html_files : f.name = HtmlName(PG1) => f.body = PageHtml(PG2)

\* C29: a robots.txt whose group has only an empty Disallow line, answered
\* with 200, gives a policy that permits every URL, whether the line is the
\* last of the file or not.
C29_EmptyDisallowAllows ==
    (rb_pc = "returned" /\ rb_log # <<>> /\ Last(rb_log) = "200" /\ rb_text \in {RB_EMPTY_LAST, RB_EMPTY_MID}) =>
        \A u \in SiteUrls : can_fetch(rb_rp, u)

\* C30: a run that raised leaves what its crawl and refinement staged; a
\* run that returned leaves no staged file; staged files disappear only in
\* the step in which a run returns.
C30_CleanupSkippedOnAbort ==
    /\ [](run_pc = "done" => (html_files = {} /\ json_files = {}))
    /\ []((run_pc = "aborted" /\ Last(run_log) = Event("jf", "raise") /\ \E i \in 1..Len(jf_ok) : jf_ok[i]) =>
            html_files # {})
    /\ [][(html_files' # html_files /\ html_files' = {}) \/ (json_files' # json_files /\ json_files' = {}) =>
            (run_pc = "cleanup" /\ run_pc' = "done")]_vars

\* The first run raised in jf_loader after staging; the second run found no
\* new sitemap, passed all stages and is about to remove what the first left.
C30_Witness ==
    /\ run_count = 2 /\ run_pc = "cleanup"
    /\ jf_downloads = <<>>
    /\ html_files # {} /\ json_files # {}

====
